---------------------------- MODULE Spec2Model ----------------------------
(***************************************************************************)
(* A model of the sitemap crawler (src/sitemap.py), of the retrying        *)
(* article fetcher it shares with src/main.py, and of the batch fetch of   *)
(* src/main.py.                                                            *)
(*                                                                         *)
(* Strings are sequences of tokens: a URL "https://h/a/#f" is              *)
(* <<"https", "://", "h", "/", "a", "/", "#", "f">>.  The path, the query  *)
(* and the fragment are the token sequences urlparse would return.         *)
(***************************************************************************)
EXTENDS Integers, Sequences, FiniteSets, TLC

VARIABLES
    pc,         \* position of main(): "main", "loop", "fetch", "extract", "done", "raised"
    base_url,   \* sys.argv[1], the seed URL
    rp,         \* the RobotFileParser returned by fetch_robots
    robots,     \* what the robots.txt endpoint did when fetch_robots read it
    visited,    \* extract_links: visited
    to_visit,   \* extract_links: to_visit
    url,        \* extract_links: the loop variable url (<<>> outside an iteration)
    soup,       \* extract_links: soup, the document fetch_article returned, or None
    calls,      \* call log of fetch_article: url -> [n, last]
    articles,   \* the files of articles/: set of [name, page]
    site,       \* the web site crawled: what each URL answers, when that is fixed
    arg,        \* unit harness: the argument of the function under test
    ret,        \* unit harness: what the function returned
    pool        \* src/main.py fetch_and_save_articles: main thread, tasks, files

vars == <<pc, base_url, rp, robots, visited, to_visit, url, soup, calls,
          articles, arg, ret, site, pool>>

crawlVars == <<pc, base_url, rp, robots, visited, to_visit, url, soup, calls,
               articles, site>>

(***************************************************************************)
(* Bounds of the model.                                                    *)
(***************************************************************************)
MaxLinks == 2      \* anchors per fetched page
MaxCount == 2      \* the call log counts up to this many calls per URL
MaxPathLen == 3    \* tokens in a path given to the unit harness
MaxDepth == 13     \* deepest path "/a/a/.../a" given to the unit harness
MaxUrls == 3       \* URLs in a list given to generate_sitemap
MaxBatch == 2      \* URLs in a list given to fetch_and_save_articles
MaxWorkers == 2    \* largest max_workers given to fetch_and_save_articles

(***************************************************************************)
(* String helpers (Python str methods on token sequences).                 *)
(***************************************************************************)
\* s.startswith(p)
StartsWith(s, p) ==
    /\ Len(p) <= Len(s)
    /\ SubSeq(s, 1, Len(p)) = p

\* s.endswith(<<c>>)
EndsWith(s, c) == Len(s) > 0 /\ s[Len(s)] = c

\* s.count(c)
RECURSIVE Count(_, _)
Count(s, c) ==
    IF s = <<>> THEN 0
    ELSE (IF Head(s) = c THEN 1 ELSE 0) + Count(Tail(s), c)

\* s.lstrip(c)
RECURSIVE LStrip(_, _)
LStrip(s, c) ==
    IF s # <<>> /\ Head(s) = c THEN LStrip(Tail(s), c) ELSE s

\* s.rstrip(c)
RECURSIVE RStrip(_, _)
RStrip(s, c) ==
    IF s # <<>> /\ s[Len(s)] = c THEN RStrip(SubSeq(s, 1, Len(s) - 1), c) ELSE s

\* s.strip(c)
Strip(s, c) == RStrip(LStrip(s, c), c)

\* s.replace(a, b) for single tokens
Replace(s, a, b) == [i \in 1..Len(s) |-> IF s[i] = a THEN b ELSE s[i]]

\* index of the first token of s that is in set cs, Len(s)+1 if none
RECURSIVE FindFrom(_, _, _)
FindFrom(s, cs, i) ==
    IF i > Len(s) THEN Len(s) + 1
    ELSE IF s[i] \in cs THEN i
    ELSE FindFrom(s, cs, i + 1)

(***************************************************************************)
(* urllib.parse: urlparse and ParseResult.geturl on absolute URLs          *)
(* scheme "://" netloc path ["?" query] ["#" fragment].                    *)
(***************************************************************************)
urlparse(s) ==
    LET rest == SubSeq(s, 4, Len(s))
        h == FindFrom(rest, {"#"}, 1)
        nofrag == SubSeq(rest, 1, h - 1)
        q == FindFrom(nofrag, {"?"}, 1)
    IN  [scheme |-> s[1],
         netloc |-> s[3],
         path |-> SubSeq(nofrag, 1, q - 1),
         query |-> SubSeq(nofrag, q + 1, Len(nofrag)),
         fragment |-> SubSeq(rest, h + 1, Len(rest))]

geturl(p) ==
    <<p.scheme, "://", p.netloc>> \o p.path
        \o (IF p.query # <<>> THEN <<"?">> \o p.query ELSE <<>>)
        \o (IF p.fragment # <<>> THEN <<"#">> \o p.fragment ELSE <<>>)


(***************************************************************************)
(* normalize_url: drop one trailing "/" of the path, drop the fragment.    *)
(***************************************************************************)
\* parsed_url.path[:-1] when the path ends with "/"
StripSlash(path) ==
    IF EndsWith(path, "/") THEN SubSeq(path, 1, Len(path) - 1) ELSE path

normalize_url(s) ==
    LET parsed_url == urlparse(s)
    IN  geturl([parsed_url EXCEPT !.path = StripSlash(parsed_url.path),
                                  !.fragment = <<>>])

(***************************************************************************)
(* determine_priority, in tenths: 1.0 is 10, 0.1 is 1.                     *)
(* round(1.0 - 0.1 * c, 1) is the tenth 10 - c for every count c.          *)
(***************************************************************************)
Max(a, b) == IF a >= b THEN a ELSE b

determine_priority(s) == Max(1, 10 - Count(urlparse(s).path, "/"))

(***************************************************************************)
(* The artifact name fetch_article writes a page under.                    *)
(***************************************************************************)
file_name(s) ==
    LET stem == Replace(Strip(urlparse(s).path, "/"), "/", "_")
    IN  (IF stem = <<>> THEN <<"index">> ELSE stem) \o <<".html">>

(***************************************************************************)
(* generate_sitemap: the <url> entries, in the order of                    *)
(* urls.sort(key=lambda x: (-determine_priority(x), x)).                   *)
(***************************************************************************)
\* the code points of a token's characters
CodePoints(tok) ==
    CASE tok = "https" -> <<104, 116, 116, 112, 115>>
      [] tok = "http" -> <<104, 116, 116, 112>>
      [] tok = "://" -> <<58, 47, 47>>
      [] tok = "#" -> <<35>>
      [] tok = "/" -> <<47>>
      [] tok = "?" -> <<63>>
      [] tok = "_" -> <<95>>
      [] tok = "a" -> <<97>>
      [] tok = "b" -> <<98>>
      [] tok = "c" -> <<99>>
      [] tok = "f" -> <<102>>
      [] tok = "h" -> <<104>>
      [] tok = "q" -> <<113>>
      [] tok = "x" -> <<120>>

\* a string as the sequence of its code points
RECURSIVE Chars(_)
Chars(s) == IF s = <<>> THEN <<>> ELSE CodePoints(Head(s)) \o Chars(Tail(s))

\* a < b for sequences of code points (Python's str.__lt__)
RECURSIVE SeqLess(_, _)
SeqLess(a, b) ==
    IF b = <<>> THEN FALSE
    ELSE IF a = <<>> THEN TRUE
    ELSE IF Head(a) # Head(b) THEN Head(a) < Head(b)
    ELSE SeqLess(Tail(a), Tail(b))

StrLess(s, t) == SeqLess(Chars(s), Chars(t))

\* (-determine_priority(x), x) < (-determine_priority(y), y)
KeyLess(x, y) ==
    \/ determine_priority(x) > determine_priority(y)
    \/ determine_priority(x) = determine_priority(y) /\ StrLess(x, y)

\* x put into a sorted list, after the elements whose key is not greater
RECURSIVE Insert(_, _)
Insert(x, sorted) ==
    IF sorted = <<>> THEN <<x>>
    ELSE IF KeyLess(x, Head(sorted)) THEN <<x>> \o sorted
    ELSE <<Head(sorted)>> \o Insert(x, Tail(sorted))

\* list.sort: stable, by key
RECURSIVE Sort(_)
Sort(urls) ==
    IF urls = <<>> THEN <<>>
    ELSE Insert(urls[Len(urls)], Sort(SubSeq(urls, 1, Len(urls) - 1)))

\* the <url> elements of the urlset: loc and priority
generate_sitemap(urls) ==
    LET sorted == Sort(urls)
    IN  [i \in 1..Len(sorted) |->
            [loc |-> sorted[i], priority |-> determine_priority(sorted[i])]]

(***************************************************************************)
(* urllib.robotparser.RobotFileParser as fetch_robots and extract_links    *)
(* use it.  A robots.txt file is the sequence of rule lines of the entry   *)
(* that applies to the crawler's user agent.                               *)
(***************************************************************************)
\* RobotFileParser(): nothing read yet
NewRobotFileParser ==
    [disallow_all |-> FALSE, allow_all |-> FALSE, last_checked |-> FALSE,
     rulelines |-> <<>>]

\* RuleLine(path, allowance): an empty Disallow allows everything
RuleLine(path, allowance) ==
    [path |-> path, allowance |-> (allowance \/ path = <<>>)]

Allow(path) == RuleLine(path, TRUE)
Disallow(path) == RuleLine(path, FALSE)

\* The robots.txt files a host may serve.
RobotsFiles ==
    { <<>>,
      <<Disallow(<<"/", "b">>)>>,
      <<Allow(<<"/", "a", "/">>), Disallow(<<"/", "a">>)>>,
      <<Disallow(<<"/">>)>> }

\* What the robots.txt endpoint may do when rp.read() asks for it.
RobotsResponses ==
    [kind : {"ok"}, file : RobotsFiles]
        \cup [kind : {"unreachable", "http_401", "http_403", "http_404",
                      "http_500", "not_utf8", "unparsable"},
              file : {<<>>}]

\* The responses the spec calls a failed load.
RobotsLoadFailed(r) == r.kind # "ok"

\* rp after rp.read().  urlopen's HTTPError sets disallow_all (401, 403) or
\* allow_all (another 4xx) or nothing (5xx); its URLError and decode's
\* UnicodeDecodeError leave read() as exceptions, before parse() has set
\* last_checked; parse() skips the lines it does not understand.
Read(r) ==
    CASE r.kind \in {"http_401", "http_403"} ->
            [NewRobotFileParser EXCEPT !.disallow_all = TRUE]
      [] r.kind = "http_404" ->
            [NewRobotFileParser EXCEPT !.allow_all = TRUE]
      [] r.kind \in {"ok", "unparsable"} ->
            [NewRobotFileParser EXCEPT !.last_checked = TRUE,
                                       !.rulelines = r.file]
      [] OTHER -> NewRobotFileParser

\* fetch_robots: an exception of rp.read() is printed and swallowed, and
\* rp is returned as read() left it
fetch_robots(r) == Read(r)

\* Entry.allowance: the first rule line that applies decides
RECURSIVE allowance(_, _)
allowance(rulelines, target) ==
    IF rulelines = <<>> THEN TRUE
    ELSE IF StartsWith(target, Head(rulelines).path)
         THEN Head(rulelines).allowance
         ELSE allowance(Tail(rulelines), target)

\* the string can_fetch matches rules against: path?query#fragment, or "/"
RobotsTarget(s) ==
    LET t == SubSeq(s, 4, Len(s)) IN IF t = <<>> THEN <<"/">> ELSE t

can_fetch(r, s) ==
    IF r.disallow_all THEN FALSE
    ELSE IF r.allow_all THEN TRUE
    ELSE IF ~r.last_checked THEN FALSE
    ELSE allowance(r.rulelines, RobotsTarget(s))

(***************************************************************************)
(* fetch_article: up to `retries` GETs with exponential backoff.           *)
(***************************************************************************)
Retries == 3       \* retries=3

\* How a page's server may behave.
Behaviours == {"html", "nonhtml", "down", "flaky", "undecodable"}

\* requests.get + raise_for_status + the Content-Type test at one attempt
Respond(beh, attempt) ==
    CASE beh = "down" -> "RequestException"
      [] beh = "flaky" -> IF attempt = 0 THEN "RequestException" ELSE "html"
      [] OTHER -> beh

RECURSIVE Pow2(_)
Pow2(n) == IF n = 0 THEN 1 ELSE 2 * Pow2(n - 1)

\* a faulty backoff: linear, 1 s, 2 s, 3 s
BackoffLinear(attempt) == attempt + 1

\* time.sleep(2 ** attempt)
Backoff(attempt) == Pow2(attempt)

\* The result of a call: what it returned or raised, the requests.get and
\* time.sleep calls it made, in order, and the files it wrote, in order.
Outcome(result, trace, wrote) ==
    [result |-> result, trace |-> trace, wrote |-> wrote]

Get(attempt) == <<"GET", attempt>>
Sleep(seconds) == <<"sleep", seconds>>

\* src/sitemap.py fetch_article, from attempt `attempt` on
RECURSIVE fetch_attempts(_, _, _, _)
fetch_attempts(s, beh, attempt, trace) ==
    IF attempt >= Retries THEN Outcome("none", trace, <<>>)
    ELSE LET r == Respond(beh, attempt)
             got == Append(trace, Get(attempt))
         IN
         CASE r = "RequestException" ->
                fetch_attempts(s, beh, attempt + 1,
                               Append(got, Sleep(Backoff(attempt))))
           [] r = "nonhtml" -> Outcome("none", got, <<>>)
           [] r = "undecodable" -> Outcome("raised", got, <<>>)
           [] OTHER -> Outcome("soup", got, <<file_name(s)>>)

\* a faulty fetch_article: the body is saved whatever the call ends as
fetch_article_saving(s, beh) ==
    [fetch_attempts(s, beh, 0, <<>>) EXCEPT !.wrote = <<file_name(s)>>]

fetch_article(s, beh) == fetch_attempts(s, beh, 0, <<>>)

\* src/main.py fetch_article, from attempt `attempt` on
RECURSIVE main_fetch_attempts(_, _, _, _)
main_fetch_attempts(s, beh, attempt, trace) ==
    IF attempt >= Retries THEN Outcome("none", trace, <<>>)
    ELSE LET r == Respond(beh, attempt)
             got == Append(trace, Get(attempt))
         IN
         CASE r = "RequestException" ->
                main_fetch_attempts(s, beh, attempt + 1,
                                    Append(got, Sleep(Backoff(attempt))))
           [] r = "nonhtml" -> Outcome("none", got, <<>>)
           [] r = "undecodable" -> Outcome("none", got, <<>>)
           [] OTHER -> Outcome("file", got, <<file_name(s)>>)

\* a URL urlparse raises ValueError for ("Invalid IPv6 URL")
Malformed(s) == s[3] = "["

\* src/main.py fetch_article: is_allowed first, then the attempts.  For a
\* malformed URL rp.can_fetch raises when it comes to parse the URL, outside
\* the try; when it answers without parsing, urlparse raises inside the try.
main_fetch_article(s, beh, r) ==
    IF Malformed(s)
    THEN IF ~r.disallow_all /\ ~r.allow_all /\ r.last_checked
         THEN Outcome("raised", <<>>, <<>>)
         ELSE Outcome("none", <<>>, <<>>)
    ELSE IF ~can_fetch(r, s) THEN Outcome("none", <<>>, <<>>)
    ELSE main_fetch_attempts(s, beh, 0, <<>>)


(***************************************************************************)
(* The crawl: main() of src/sitemap.py up to the return of extract_links.  *)
(***************************************************************************)
\* The seed URLs main() may be started with.
Seeds ==
    { <<"https", "://", "h", "/">>,
      <<"https", "://", "h", "/", "b">>,
      <<"http", "://", "h", "/">> }

\* The absolute URLs urljoin(url, link["href"]) may give for a page's anchors.
Anchors ==
    { <<"https", "://", "h", "/", "a">>,
      <<"https", "://", "h", "/", "a", "/">>,
      <<"https", "://", "h", "/", "a", "/", "/">>,
      <<"https", "://", "h", "/", "b", "#", "f">>,
      <<"https", "://", "x", "/", "a">>,
      <<"http", "://", "h", "/", "c">>,
      <<"https", "://", "h", "/">> }

\* soup.find_all("a", href=True) resolved: the link sets of a page
PageLinks == {ls \in SUBSET Anchors : Cardinality(ls) <= MaxLinks}

\* A web whose answers are not fixed: each requests.get may meet any
\* behaviour and any page.
AnyWeb == [fixed |-> FALSE, pages |-> <<>>]

\* https://h followed by the tokens p
OnHost(p) == <<"https", "://", "h">> \o p

\* what a fixed site answers for a URL: a behaviour and the page's links
Answer(beh, links) == [beh |-> beh, links |-> links]

\* A site whose links differ in their trailing slashes.
SlashSite ==
    [fixed |-> TRUE,
     pages |->
        (OnHost(<<>>) :> Answer("html", {OnHost(<<"/", "b">>), OnHost(<<"/", "c">>)}))
     @@ (OnHost(<<"/", "b">>) :> Answer("html", {OnHost(<<"/", "a", "/", "/", "/">>)}))
     @@ (OnHost(<<"/", "c">>) :> Answer("html", {OnHost(<<"/", "a", "/", "/">>)}))
     @@ (OnHost(<<"/", "a", "/">>) :> Answer("html", {}))
     @@ (OnHost(<<"/", "a">>) :> Answer("html", {}))]

\* A site with two pages of the same path and different queries.
QuerySite ==
    [fixed |-> TRUE,
     pages |->
        (OnHost(<<>>) :> Answer("html", {OnHost(<<"/", "a", "?", "q">>),
                                         OnHost(<<"/", "a">>)}))
     @@ (OnHost(<<"/", "a", "?", "q">>) :> Answer("html", {OnHost(<<"/", "b">>)}))
     @@ (OnHost(<<"/", "a">>) :> Answer("flaky", {OnHost(<<"/">>)}))
     @@ (OnHost(<<"/", "b">>) :> Answer("html", {OnHost(<<"/", "a", "#", "f">>)}))]

\* A site with a cycle, a dead link, a PDF and links that leave the crawl.
MixedSite ==
    [fixed |-> TRUE,
     pages |->
        (OnHost(<<>>) :> Answer("html", {OnHost(<<"/", "a">>), OnHost(<<"/", "b">>)}))
     @@ (OnHost(<<"/", "a">>) :> Answer("html", {OnHost(<<"/", "b", "/">>),
                                                  OnHost(<<"/", "c">>)}))
     @@ (OnHost(<<"/", "b">>) :> Answer("html", {OnHost(<<"/", "a", "/">>),
                                                  <<"https", "://", "x", "/", "a">>,
                                                  <<"http", "://", "h", "/", "c">>,
                                                  OnHost(<<"/", "f">>)}))
     @@ (OnHost(<<"/", "c">>) :> Answer("nonhtml", {}))]

\* A site with a page whose body has no encoding to detect.
ErrorSite ==
    [fixed |-> TRUE,
     pages |->
        (OnHost(<<>>) :> Answer("html", {OnHost(<<"/", "a">>), OnHost(<<"/", "b">>)}))
     @@ (OnHost(<<"/", "a">>) :> Answer("undecodable", {}))
     @@ (OnHost(<<"/", "b">>) :> Answer("html", {OnHost(<<"/", "a", "/">>)}))]

\* The fixed sites crawled.
Sites == {SlashSite, QuerySite, MixedSite, ErrorSite}

\* the answer of web w for URL s; a URL the site does not have fails
Page(w, s) ==
    IF s \in DOMAIN w.pages THEN w.pages[s] ELSE Answer("down", {})

\* the behaviours a requests.get of s may meet
Served(w, s) == IF w.fixed THEN {Page(w, s).beh} ELSE Behaviours

\* the link sets the page of s may have
Linked(w, s) == IF w.fixed THEN {Page(w, s).links} ELSE PageLinks

\* The robots answers the crawl never asked for yet.
Unread == [kind |-> "unread", file |-> <<>>]

\* Python's None
None == <<>>

\* a BeautifulSoup document, as far as extract_links reads it: its anchors
BeautifulSoup(links) == <<links>>

\* {urljoin(url, link["href"]) for link in soup.find_all("a", href=True)}
find_all_href(doc) == doc[1]

Start ==
    /\ pc = "main"
    /\ base_url \in Seeds
    /\ rp = NewRobotFileParser
    /\ robots = Unread
    /\ visited = {}
    /\ to_visit = {}
    /\ url = <<>>
    /\ soup = None
    /\ calls = <<>>
    /\ articles = {}
    /\ arg = <<>>
    /\ ret = [op |-> "none"]

\* fetch_and_save_articles not called yet
Idle == [pc |-> "idle"]

\* any web
Init == Start /\ site = AnyWeb /\ pool = Idle

\* one of the fixed sites
SiteInit == Start /\ site \in Sites /\ pool = Idle

\* main(): rp = fetch_robots(...), then extract_links up to its loop
Main ==
    /\ pc = "main"
    /\ \E r \in RobotsResponses :
        /\ robots' = r
        /\ rp' = fetch_robots(r)
    /\ visited' = {}
    /\ to_visit' = {normalize_url(base_url)}
    /\ pc' = "loop"
    /\ UNCHANGED <<base_url, url, soup, calls, articles, arg, ret, site, pool>>

\* a faulty scheme test: nothing is skipped
NotHttpsNever(s) == FALSE

\* a faulty scheme test: the seed is not tested
NotHttpsLinksOnly(s) ==
    s # normalize_url(base_url) /\ urlparse(s).scheme # "https"

\* urlparse(url).scheme != "https"
NotHttps(s) == urlparse(s).scheme # "https"

\* the loop head: pop, normalize, skip a visited or non-HTTPS URL
Pop ==
    /\ pc = "loop"
    /\ \E u \in to_visit :
        LET n == normalize_url(u) IN
        /\ to_visit' = to_visit \ {u}
        /\ IF n \in visited \/ NotHttps(n)
           THEN pc' = "loop" /\ url' = <<>>
           ELSE pc' = "fetch" /\ url' = n
    /\ UNCHANGED <<base_url, rp, robots, visited, soup, calls, articles, arg, ret, site, pool>>

\* the call log: one more call of fetch_article(s), with its result
Logged(log, s, result) ==
    IF s \in DOMAIN log
    THEN [log EXCEPT ![s] = [n |-> (IF @.n < MaxCount THEN @.n + 1 ELSE @.n),
                             last |-> result]]
    ELSE log @@ (s :> [n |-> 1, last |-> result])

\* open(file_path, "w").write(...): the file is created or overwritten
Written(files, name, page) ==
    IF name = <<>> THEN files
    ELSE {f \in files : f.name # name} \cup {[name |-> name, page |-> page]}

\* the files after the writes of one call of fetch_article
RECURSIVE WrittenAll(_, _, _)
WrittenAll(files, names, page) ==
    IF names = <<>> THEN files
    ELSE WrittenAll(Written(files, Head(names), page), Tail(names), page)

\* a faulty test of the result: no result counts as a failure
FalsyNever(result) == FALSE

\* not soup
Falsy(result) == result = "none"

\* file_name, soup = fetch_article(url, headers, rp); if not soup: continue
Fetch ==
    /\ pc = "fetch"
    /\ \E beh \in Served(site, url) :
        LET o == fetch_article(url, beh) IN
        /\ calls' = Logged(calls, url, o.result)
        /\ articles' = WrittenAll(articles, o.wrote, url)
        /\ CASE o.result = "raised" ->
                    pc' = "raised" /\ url' = url /\ soup' = soup
             [] Falsy(o.result) ->
                    pc' = "loop" /\ url' = <<>> /\ soup' = None
             [] OTHER ->
                    /\ pc' = "extract"
                    /\ url' = url
                    /\ \E links \in Linked(site, url) : soup' = BeautifulSoup(links)
    /\ UNCHANGED <<base_url, rp, robots, visited, to_visit, arg, ret, site, pool>>

\* visited.add(url)
MarkVisited(v, s) == v \cup {s}

\* a faulty host test: every link passes
SameHostAny(link, base) == TRUE

\* urlparse(normalized_link).netloc == urlparse(base_url).netloc
SameHost(link, base) == urlparse(link).netloc = urlparse(base).netloc

\* the links of a page that the for loop adds to to_visit
NewLinks(links, base, r, v) ==
    { normalize_url(l) : l \in
        { l \in links : /\ SameHost(normalize_url(l), base)
                        /\ can_fetch(r, normalize_url(l))
                        /\ normalize_url(l) \notin v } }

\* visited.add(url) and the loop over the page's links
Extract ==
    /\ pc = "extract"
    /\ visited' = MarkVisited(visited, url)
    /\ to_visit' = to_visit \cup NewLinks(find_all_href(soup), base_url, rp, visited')
    /\ pc' = "loop"
    /\ url' = <<>>
    /\ UNCHANGED <<base_url, rp, robots, soup, calls, articles, arg, ret, site, pool>>

\* while to_visit: ... ; return list(visited)
Return ==
    /\ pc = "loop"
    /\ to_visit = {}
    /\ pc' = "done"
    /\ UNCHANGED <<base_url, rp, robots, visited, to_visit, url, soup, calls,
                   articles, arg, ret, site, pool>>

Next == Main \/ Pop \/ Fetch \/ Extract \/ Return

Spec == Init /\ [][Next]_vars

\* the crawl of a fixed site
SiteSpec == SiteInit /\ [][Next]_vars

\* extract_links as a function of the site, for one order of the pops: the
\* list it returns, or Raised when a fetch_article call raises
Raised == {<<"raised">>}

RECURSIVE crawl(_, _, _, _, _)
crawl(w, base, r, v, tv) ==
    IF tv = {} THEN v
    ELSE LET u == CHOOSE x \in tv : TRUE
             n == normalize_url(u)
             rest == tv \ {u}
         IN  IF n \in v \/ NotHttps(n) THEN crawl(w, base, r, v, rest)
             ELSE LET o == fetch_article(n, Page(w, n).beh) IN
                  IF o.result = "raised" THEN Raised
                  ELSE IF Falsy(o.result) THEN crawl(w, base, r, v, rest)
                  ELSE crawl(w, base, r, MarkVisited(v, n),
                             rest \cup NewLinks(Page(w, n).links, base, r,
                                                MarkVisited(v, n)))

extract_links(w, base, r) == crawl(w, base, r, {}, {normalize_url(base)})


(***************************************************************************)
(* The batch fetch: main_fetch() and fetch_and_save_articles() of          *)
(* src/main.py.  pool.pc is the main thread ("idle", "submit", "wait",     *)
(* "returned", or "no_sitemap"); pool.task[i] is the future of urls[i].    *)
(***************************************************************************)
\* The URLs the <loc> elements of sitemap.xml may hold.
BatchUrls ==
    { <<"https", "://", "h", "/", "a">>,
      <<"https", "://", "h", "/", "a", "?", "q">>,
      <<"https", "://", "x", "/", "a">>,
      <<"https", "://", "h", "/", "b">>,
      <<"https", "://", "[", "/", "a">> }

\* the lists of at most n of them
RECURSIVE BatchLists(_)
BatchLists(n) ==
    IF n = 0 THEN {<<>>}
    ELSE BatchLists(n - 1)
            \cup {Append(l, u) : l \in {l \in BatchLists(n - 1) : Len(l) = n - 1},
                                 u \in BatchUrls}

\* What the robots.txt endpoint may do when main_fetch reads it.
BatchRobots ==
    {r \in RobotsResponses :
        /\ r.kind \in {"ok", "http_404", "unreachable"}
        /\ r.file \in {<<>>, <<Disallow(<<"/", "b">>)>>}}

\* a future just submitted
NewTask == [st |-> "queued", result |-> "pending", file |-> <<>>]

\* main_fetch: rp, the URLs of sitemap.xml, the call of
\* fetch_and_save_articles; nothing more when the sitemap cannot be fetched.
\* main_fetch passes max_workers=10; smaller pools are taken too, so that
\* tasks wait for a worker.
main_fetch ==
    /\ pool.pc = "idle"
    /\ \/ \E r \in BatchRobots, urls \in BatchLists(MaxBatch), n \in 1..MaxWorkers :
            pool' = [pc |-> "submit", rp |-> fetch_robots(r), urls |-> urls,
                     max_workers |-> n, task |-> <<>>, collected |-> {},
                     files |-> {}]
       \/ pool' = [pc |-> "no_sitemap"]
    /\ UNCHANGED <<crawlVars, arg, ret>>

\* executor.submit(fetch_article, url, headers, rp) for the next url, then
\* the as_completed loop
Submit ==
    /\ pool.pc = "submit"
    /\ IF Len(pool.task) < Len(pool.urls)
       THEN pool' = [pool EXCEPT !.task = Append(@, NewTask)]
       ELSE pool' = [pool EXCEPT !.pc = "wait"]
    /\ UNCHANGED <<crawlVars, arg, ret>>

\* a faulty pool: the worker of a task that raised is lost
BusyKeepsRaised(p) ==
    Cardinality({i \in DOMAIN p.task :
                    \/ p.task[i].st \in {"running", "writing"}
                    \/ p.task[i].result = "raised"})

\* the workers that are running a task
Busy(p) ==
    Cardinality({i \in DOMAIN p.task : p.task[i].st \in {"running", "writing"}})

\* task i is the first of the work queue and a worker is free
CanStart(p, i) ==
    /\ p.task[i].st = "queued"
    /\ \A j \in 1..(i - 1) : p.task[j].st # "queued"
    /\ Busy(p) < p.max_workers

\* a worker takes the first task of the queue
StartTask ==
    /\ pool.pc \in {"submit", "wait"}
    /\ \E i \in DOMAIN pool.task :
        /\ CanStart(pool, i)
        /\ pool' = [pool EXCEPT !.task[i].st = "running"]
    /\ UNCHANGED <<crawlVars, arg, ret>>

\* fetch_article(url, headers, rp) up to the open of the file, or to its end
RunTask ==
    /\ pool.pc \in {"submit", "wait"}
    /\ \E i \in DOMAIN pool.task, beh \in Behaviours :
        LET o == main_fetch_article(pool.urls[i], beh, pool.rp) IN
        /\ pool.task[i].st = "running"
        /\ pool' = [pool EXCEPT !.task[i] =
                        IF o.wrote # <<>>
                        THEN [st |-> "writing", result |-> "pending",
                              file |-> o.wrote[1]]
                        ELSE [st |-> "finished", result |-> o.result,
                              file |-> <<>>]]
    /\ UNCHANGED <<crawlVars, arg, ret>>

\* file.write(pretty_html); return file_name
WriteTask ==
    /\ pool.pc \in {"submit", "wait"}
    /\ \E i \in DOMAIN pool.task :
        /\ pool.task[i].st = "writing"
        /\ pool' = [pool EXCEPT
                        !.task[i].st = "finished",
                        !.task[i].result = "file",
                        !.files = Written(@, pool.task[i].file, pool.urls[i])]
    /\ UNCHANGED <<crawlVars, arg, ret>>

\* as_completed yields a finished future; future.result(), an exception of
\* the task caught and printed
Collect ==
    /\ pool.pc = "wait"
    /\ \E i \in DOMAIN pool.task \ pool.collected :
        /\ pool.task[i].st = "finished"
        /\ pool' = [pool EXCEPT !.collected = @ \cup {i}]
    /\ UNCHANGED <<crawlVars, arg, ret>>

\* the end of the as_completed loop and of the with block
ReturnBatch ==
    /\ pool.pc = "wait"
    /\ pool.collected = DOMAIN pool.task
    /\ pool' = [pool EXCEPT !.pc = "returned"]
    /\ UNCHANGED <<crawlVars, arg, ret>>

BatchNext ==
    \/ main_fetch \/ Submit \/ StartTask \/ RunTask \/ WriteTask
    \/ Collect \/ ReturnBatch

BatchSpec == Init /\ [][BatchNext]_vars


(***************************************************************************)
(* A harness that calls one of the functions once, on a bounded input.     *)
(***************************************************************************)
\* token sequences over {"/", "a"} of length n
RECURSIVE PathsOfLen(_)
PathsOfLen(n) ==
    IF n = 0 THEN {<<>>}
    ELSE {Append(p, c) : p \in PathsOfLen(n - 1), c \in {"/", "a"}}

\* the path "/a/a/.../a" with d segments
RECURSIVE DeepPath(_)
DeepPath(d) == IF d = 0 THEN <<>> ELSE DeepPath(d - 1) \o <<"/", "a">>

\* paths urlparse can return for an absolute URL: empty, or starting with "/"
UnitPaths ==
    {p \in UNION {PathsOfLen(n) : n \in 0..MaxPathLen} : p = <<>> \/ p[1] = "/"}
        \cup {DeepPath(d) : d \in 0..MaxDepth}

UnitUrls ==
    { <<"https", "://", "h">> \o p \o f :
        p \in UnitPaths, f \in {<<>>, <<"#", "f">>} }

CallNormalize ==
    /\ ret.op = "none"
    /\ \E s \in UnitUrls :
        /\ arg' = s
        /\ ret' = [op |-> "normalize_url",
                   value |-> normalize_url(s),
                   again |-> normalize_url(normalize_url(s))]
    /\ UNCHANGED <<crawlVars, pool>>

CallPriority ==
    /\ ret.op = "none"
    /\ \E s \in UnitUrls :
        /\ arg' = s
        /\ ret' = [op |-> "determine_priority", value |-> determine_priority(s)]
    /\ UNCHANGED <<crawlVars, pool>>

CallFetch ==
    /\ ret.op = "none"
    /\ \E s \in Anchors, beh \in Behaviours :
        /\ arg' = s
        /\ ret' = [op |-> "fetch_article", beh |-> beh, allowed |-> TRUE,
                   out |-> fetch_article(s, beh)]
    /\ UNCHANGED <<crawlVars, pool>>

CallMainFetch ==
    /\ ret.op = "none"
    /\ \E s \in Anchors, beh \in Behaviours, r \in RobotsResponses :
        /\ arg' = s
        /\ ret' = [op |-> "main.fetch_article", beh |-> beh,
                   allowed |-> can_fetch(fetch_robots(r), s),
                   out |-> main_fetch_article(s, beh, fetch_robots(r))]
    /\ UNCHANGED <<crawlVars, pool>>

\* The URLs of the lists given to generate_sitemap.
SitemapUrls ==
    { <<"https", "://", "h">>,
      <<"https", "://", "h", "/">>,
      <<"https", "://", "h", "/", "a">>,
      <<"https", "://", "h", "/", "a", "/", "b">>,
      <<"https", "://", "h", "/", "b">>,
      <<"http", "://", "h", "/", "a">> }

\* the lists of at most n of them
RECURSIVE UrlLists(_)
UrlLists(n) ==
    IF n = 0 THEN {<<>>}
    ELSE UrlLists(n - 1)
            \cup {Append(l, u) : l \in {l \in UrlLists(n - 1) : Len(l) = n - 1},
                                 u \in SitemapUrls}

CallSitemap ==
    /\ ret.op = "none"
    /\ \E urls \in UrlLists(MaxUrls) :
        /\ arg' = urls
        /\ ret' = [op |-> "generate_sitemap", value |-> generate_sitemap(urls)]
    /\ UNCHANGED <<crawlVars, pool>>

UnitNext ==
    CallNormalize \/ CallPriority \/ CallFetch \/ CallMainFetch \/ CallSitemap

UnitSpec == Init /\ [][UnitNext]_vars


(***************************************************************************)
(* Properties of the crawl (Spec).                                         *)
(***************************************************************************)
\* C1: fetch_article is called at most once for each normalized URL.
NoDuplicateFetch == \A s \in DOMAIN calls : calls[s].n <= 1

\* C2: between iterations, a URL whose last fetch_article call returned a
\* failure (None, None) is in visited.
FailedPagesVisited ==
    pc \in {"loop", "done"} =>
        \A s \in DOMAIN calls : calls[s].last = "none" => s \in visited

\* C3: fetch_article is never called for a URL that rp.can_fetch denies,
\* the seed included.
Politeness == \A s \in DOMAIN calls : can_fetch(rp, s)

\* C4: no error raised while a page is fetched, decoded, parsed or saved
\* leaves extract_links.
ErrorsContained == pc # "raised"

\* the positions at which main() has a next step: Main at "main", Pop or
\* Return at "loop", Fetch at "fetch", Extract at "extract"
Running == pc \in {"main", "loop", "fetch", "extract"}

\* C5: the crawl ends only by the loop of extract_links finding to_visit
\* empty and returning: a run that stops anywhere else never returns.
CrawlReturns == ~Running => (pc = "done" /\ to_visit = {})

\* C6: after a failed load of robots.txt the ruleset allows every URL.
FailOpenRobots ==
    (pc # "main" /\ RobotsLoadFailed(robots)) =>
        \A s \in Seeds \cup Anchors : can_fetch(rp, normalize_url(s))

Pages == {normalize_url(normalize_url(s)) : s \in Seeds \cup Anchors}

\* A measure every step of the crawl decreases (in lexicographic order): the
\* loop of extract_links cannot run forever.
Rank ==
    << IF pc = "main" THEN 1 ELSE 0,
       Cardinality(Pages \ visited),
       Cardinality(to_visit),
       CASE pc = "fetch" -> 3 [] pc = "extract" -> 2 [] pc = "loop" -> 1
         [] OTHER -> 0 >>

RECURSIVE LexLess(_, _)
LexLess(a, b) ==
    /\ a # <<>>
    /\ \/ Head(a) < Head(b)
       \/ Head(a) = Head(b) /\ LexLess(Tail(a), Tail(b))

LoopProgress == [][LexLess(Rank', Rank)]_vars

(***************************************************************************)
(* Properties of the functions (UnitSpec).                                 *)
(***************************************************************************)
\* C7: normalize_url(normalize_url(u)) = normalize_url(u) for every URL u.
IdempotentNormalization ==
    ret.op = "normalize_url" => ret.again = ret.value

\* the number of non-empty segments of a path
Segments(path) ==
    Cardinality({i \in 1..Len(path) :
                    path[i] # "/" /\ (i = 1 \/ path[i - 1] = "/")})

\* C10: determine_priority(url) is max(0.1, 1.0 - 0.1 * d) for a path of d
\* segments: 1.0 for "/" and for no segment, 0.7 for 3, 0.1 for 12 or more.
PriorityByDepth ==
    ret.op = "determine_priority" =>
        LET d == Segments(urlparse(arg).path) IN
        /\ ret.value = Max(1, 10 - d)
        /\ d = 0 => ret.value = 10
        /\ d = 3 => ret.value = 7
        /\ d >= 12 => ret.value = 1
        /\ ret.value \in 1..10

Occurrences(l, x) == Cardinality({i \in 1..Len(l) : l[i] = x})

\* generate_sitemap emits one entry per input URL, priority never increasing
\* and equal priorities in ascending order of the URL string.
SitemapSorted ==
    ret.op = "generate_sitemap" =>
        LET out == ret.value IN
        /\ Len(out) = Len(arg)
        /\ \A u \in SitemapUrls :
            Occurrences([i \in 1..Len(out) |-> out[i].loc], u) = Occurrences(arg, u)
        /\ \A i \in 1..(Len(out) - 1) :
            /\ out[i].priority >= out[i + 1].priority
            /\ out[i].priority = out[i + 1].priority =>
                ~SeqLess(Chars(out[i + 1].loc), Chars(out[i].loc))

\* C11: that ordering, and the URLs with the paths "/", "/a" and "/a/b" come
\* out in this order with the priorities 1.0, 0.9 and 0.8.
SitemapOrdering ==
    /\ SitemapSorted
    /\ (/\ ret.op = "generate_sitemap"
        /\ Len(arg) = 3
        /\ {arg[i] : i \in 1..3} = { <<"https", "://", "h", "/">>,
                                     <<"https", "://", "h", "/", "a">>,
                                     <<"https", "://", "h", "/", "a", "/", "b">> })
       => ret.value = << [loc |-> <<"https", "://", "h", "/">>, priority |-> 10],
                         [loc |-> <<"https", "://", "h", "/", "a">>, priority |-> 9],
                         [loc |-> <<"https", "://", "h", "/", "a", "/", "b">>,
                          priority |-> 8] >>

FrontierPartition == visited \cap to_visit = {}

\* C16: a discovered link (any pending URL but the seed) whose scheme is not
\* "https" is never in to_visit.
NonHttpsLinkNeverPending ==
    \A s \in to_visit \ {normalize_url(base_url)} : urlparse(s).scheme = "https"

\* C16, amended: a discovered link whose scheme is not "https" may wait in
\* to_visit, but it is dropped when popped: it is never given to fetch_article
\* and never enters visited.
NonHttpsLinkNeverFetched ==
    \A s \in (DOMAIN calls \cup visited
                \cup (IF pc \in {"fetch", "extract", "raised"} THEN {url} ELSE {}))
             \ {normalize_url(base_url)} :
        urlparse(s).scheme = "https"

\* the crawl returned after the page fetched last linked to http://h/c, which
\* robots.txt allows
HttpLinkSkipped ==
    /\ pc = "done"
    /\ soup # None
    /\ <<"http", "://", "h", "/", "c">> \in find_all_href(soup)
    /\ can_fetch(rp, <<"http", "://", "h", "/", "c">>)

\* C19: each URL in visited is a normalized https URL (no fragment, as
\* normalize_url returns it) whose last fetch_article call returned a page
\* and whose artifact is in the store.
VisitedAreSavedPages ==
    \A u \in visited :
        /\ urlparse(u).scheme = "https"
        /\ urlparse(u).fragment = <<>>
        /\ u \in DOMAIN calls
        /\ calls[u].last = "soup"
        /\ \E f \in articles : f.name = file_name(u)

\* the crawl returned pages, and a URL whose fetch failed or was not HTML is
\* not among them
FailedPageNotListed ==
    /\ pc = "done"
    /\ visited # {}
    /\ \E u \in DOMAIN calls : calls[u].last = "none" /\ u \notin visited

\* C20: fetch_article is called for https URLs only; with a seed that is not
\* https the crawl fetches nothing, writes nothing and has nothing but the
\* seed to pop before it returns the empty list.
HttpsOnlyFetch ==
    /\ \A s \in DOMAIN calls : urlparse(s).scheme = "https"
    /\ pc \in {"fetch", "extract", "raised"} => urlparse(url).scheme = "https"
    /\ urlparse(base_url).scheme # "https" =>
        /\ pc \in {"main", "loop", "done"}
        /\ calls = <<>> /\ visited = {} /\ articles = {}
        /\ to_visit \subseteq {normalize_url(base_url)}

\* the crawl of a seed that is not https returned the empty list
NonHttpsSeedReturnedEmpty ==
    /\ pc = "done"
    /\ urlparse(base_url).scheme = "http"
    /\ visited = {}

\* C12: for a fixed seed, site and robots ruleset, every execution of
\* extract_links that returns, returns the set that the execution with the
\* pop order of crawl returns.
OrderIndependentResult ==
    pc = "done" => visited = extract_links(site, base_url, rp)

\* C13: after extract_links returns there are as many artifact files as
\* visited URLs, and each visited page's file still holds that page.
OneFilePerPage ==
    pc = "done" =>
        /\ Cardinality(articles) = Cardinality(visited)
        /\ \A u \in visited : [name |-> file_name(u), page |-> u] \in articles

(***************************************************************************)
(* Properties of the batch fetch (BatchSpec).                              *)
(***************************************************************************)
\* how far the batch is: every step of BatchNext raises it
Stage(t) ==
    CASE t.st = "queued" -> 1
      [] t.st = "running" -> 2
      [] t.st = "writing" -> 3
      [] OTHER -> 4

RECURSIVE SumStages(_)
SumStages(tasks) ==
    IF tasks = <<>> THEN 0 ELSE Stage(Head(tasks)) + SumStages(Tail(tasks))

BatchRank ==
    IF pool.pc = "idle" THEN 0
    ELSE IF pool.pc = "no_sitemap" THEN 1
    ELSE 1 + SumStages(pool.task) + Cardinality(pool.collected)
           + (IF pool.pc = "submit" THEN 0 ELSE IF pool.pc = "wait" THEN 1 ELSE 2)

\* every step of the batch is a step forward: no run is infinite
BatchProgress == [][BatchRank' > BatchRank]_vars

\* C17: fetch_and_save_articles has returned only if the task of every URL
\* has finished; and while it has not returned, however the tasks so far
\* ended, there is a step to take: a submit, a running task's next step, the
\* start of the first queued task, the collection of a finished task, or
\* the return.
BatchCompletesAll ==
    /\ pool.pc = "returned" =>
        /\ Len(pool.task) = Len(pool.urls)
        /\ \A i \in 1..Len(pool.urls) : pool.task[i].st = "finished"
    /\ pool.pc = "wait" =>
        \/ \E i \in DOMAIN pool.task : pool.task[i].st \in {"running", "writing"}
        \/ \E i \in DOMAIN pool.task : CanStart(pool, i)
        \/ \E i \in DOMAIN pool.task \ pool.collected :
                pool.task[i].st = "finished"
        \/ pool.collected = DOMAIN pool.task

\* the batch returned after, with one worker, the first task raised and the
\* second saved its page
ReturnedAfterRaise ==
    /\ pool.pc = "returned"
    /\ pool.max_workers = 1
    /\ Len(pool.task) = 2
    /\ pool.task[1].result = "raised"
    /\ pool.task[2].result = "file"

\* C18: no two tasks write, or have written, the same artifact file.
NoSharedArtifactPath ==
    pool.pc \in {"submit", "wait", "returned"} =>
        \A i, j \in DOMAIN pool.task :
            (i # j /\ pool.task[i].file # <<>>) =>
                pool.task[i].file # pool.task[j].file

=============================================================================
